---- MODULE Spec2Model ----
(***************************************************************************)
(* State-machine model of the auction client in src/app.js.                *)
(*                                                                         *)
(* The client is a single-threaded event loop: every `await` is a point    *)
(* where a flow is suspended and other callbacks (event listeners, timers, *)
(* clicks, other async flows) may run.  Each action below is one such      *)
(* uninterrupted run-to-next-await segment of a handler.                   *)
(*                                                                         *)
(* Amounts are kept in units of 10^14 wei (0.0001 ETH), so that            *)
(* parseEther("0.0004") is 4 and one ether is 10000 units.                 *)
(***************************************************************************)
EXTENDS Integers, Sequences, FiniteSets, TLC

\* ------------------------------------------------------------------ bounds
MaxBids == 2        \* bids the chain may hold
MaxRuns == 2        \* initializeAuctionData runs started in a session
MaxObjs == 3        \* contract objects created in a session
MaxTime == 3        \* wall-clock seconds the model follows
MaxSubmits == 1     \* submit handlers in flight at a time
MaxEvents == 4      \* DataUpdated notifications handled in a session
MaxRegisters == 1   \* registration handlers in flight at a time

\* ------------------------------------------------------- program constants
MinIncrement == 4   \* ethers.utils.parseEther("0.0004"), in 0.0001 ETH units
EtherUnits == 10000 \* one ether in 0.0001 ETH units (parseEther/formatEther scale)
MaxMessageLen == 256
MaxNameLen == 32

\* --------------------------------------------------------------- value sets
Addrs == {"0xA", "0xB"}
NoAddr == ""                 \* undefined / null address (falsy)
Undefined == -1              \* an unset numeric slot (currentBid, endTimeValue)
\* A contract object's NewBid subscription: the bid index its listener was
\* registered at and the next one it gets; none while it has no listener.
NotSubscribed == [from |-> -1, next |-> -1]
NoText == ""                 \* undefined / empty text (falsy)
Contents == {"gm", "yo"}     \* short bid messages
\* Messages the user may have in #bid-message: a short one and one of
\* MaxMessageLen + 1 characters.
Messages == {"gm", "long257"}
\* message.length
Length(m) == IF m = "long257" THEN MaxMessageLen + 1 ELSE 2

\* The name registry read by contract.addressToName: 0xA has a name, 0xB none.
NameOf(a) == IF a = "0xA" THEN "alice" ELSE NoText

\* ------------------------------------------------------------------- state
VARIABLES
    \* the chain and the wallet (external collaborators)
    chain,          \* bidHistory: sequence of [sender, amount, content]; index i is chain[i+1]
    fullBids,       \* the contract's contribution ledger, per address
    chainEnd,       \* the contract's endTime()
    now,            \* Math.floor(Date.now() / 1000)
    walletAccount,  \* the account selected in the wallet (signs what a signer sends)
    \* the client's module-level state (src/app.js 3-21)
    contract,       \* [id, signer]: the current ethers.Contract object
    nObjs,          \* contract objects created so far
    subs,           \* per contract object: its NewBid subscription
    userAddress,
    endTimeValue,
    currentBid,
    lastBidder,
    lastBidderName,
    lastMessage,
    \* asynchronous flows in flight
    runs,           \* initializeAuctionData runs, in start order
    nameLookups,    \* addressToName(bidder) promises pending in NewBid handlers
    conn,           \* connectWallet flows in flight: [pc, by]
    \* the page
    timers,         \* setInterval(updateTimer) timers started
    timerText,      \* #auction-timer
    contributeDisabled, \* #contribute-button.disabled
    winnerText,     \* #current-winner
    minNextBidText, \* #min-next-bid (the amount shown)
    messageText,    \* #winner-message
    status,         \* showStatus: last <<message, type>>
    \* the bid dialog
    openFlow,       \* contribute() in flight: [pc, nextMinBid]
    modalVisible,
    bidInput,       \* #bid-amount value
    messageInput,   \* #bid-message value (its length)
    submitDisabled, \* #submit-bid.disabled
    onclick,        \* submitButton.onclick: the closure's captured userFullBid, or none
    submits,        \* runs of the submit handler suspended at an await, in click order
    \* dataCache (7-13) and the DataUpdated queue
    pendingUpdates,         \* dataCache.pendingUpdates, in insertion order
    processedTransactions,  \* dataCache.processedTransactions
    isProcessing,           \* dataCache.isProcessing (unset reads as false)
    drains,         \* processDataQueue calls suspended at an await: [pc, updates, i]
    dataSubs,       \* contract objects carrying a DataUpdated listener
    notified,       \* DataUpdated notifications handled so far: [id, tx]
    refreshed,      \* identifiers passed to updateSingleItem so far, in call order
    \* the registration dialog
    registerModal,  \* #register-modal shown
    nameInput,      \* #name-input value
    regOnclick,     \* #submit-name has its onclick handler
    registers       \* runs of the registration handler suspended at an await: [pc, name]

chainVars == <<chain, fullBids, chainEnd, now, walletAccount>>
walletVars == <<contract, nObjs, userAddress, conn>>
bidVars == <<currentBid, lastBidder, lastMessage>>
pageVars == <<winnerText, minNextBidText, messageText>>
timerVars == <<timers, timerText, contributeDisabled>>
dialogVars == <<openFlow, modalVisible, bidInput, messageInput,
               submitDisabled, onclick>>
submitVars == <<submits>>
cacheVars == <<pendingUpdates, processedTransactions, isProcessing, drains,
              dataSubs, notified, refreshed>>
registerVars == <<registerModal, nameInput, regOnclick, registers>>
\* What the auction, wallet and bid-dialog handlers never touch.
sideVars == <<cacheVars, registerVars>>

vars == <<chain, fullBids, chainEnd, now, walletAccount, contract, nObjs, subs,
          userAddress, endTimeValue, currentBid, lastBidder, lastBidderName,
          lastMessage, runs, nameLookups, conn, timers, timerText,
          contributeDisabled, winnerText, minNextBidText, messageText, status,
          openFlow, modalVisible, bidInput, messageInput,
          submitDisabled, onclick, submits, pendingUpdates,
          processedTransactions, isProcessing, drains, dataSubs, notified,
          refreshed, registerModal, nameInput, regOnclick, registers>>

\* ------------------------------------------------------------ pure helpers

\* ethers.utils.formatEther: the decimal text of an amount, as whole ethers
\* and the fractional part.
formatEther(w) == [whole |-> w \div EtherUnits, frac |-> w % EtherUnits]

\* ethers.utils.parseEther: the amount a decimal text denotes.
parseEther(t) == t.whole * EtherUnits + t.frac

\* A display that shows the current bid itself as the next minimum.
DisplayCurrentBid(cb) == IF cb # Undefined THEN cb ELSE MinIncrement

\* nextMinBid as updateDisplay computes it (a BigNumber is truthy, zero included).
DisplayNextMinBid(cb) == IF cb # Undefined THEN cb + MinIncrement ELSE MinIncrement

\* nextMinBid as contribute computes it.
ContributeNextMinBid(cb) == IF cb # Undefined THEN cb + MinIncrement ELSE MinIncrement

\* `${lastBidder.slice(0, 6)}...${lastBidder.slice(-4)}`
ShortAddr(a) == <<a, "...", a>>

\* updateDisplay(): the three page elements it writes, from the globals given.
UpdateDisplay(bidder, name, cb, msg) ==
    /\ winnerText' = IF bidder # NoAddr
                        THEN (IF name # NoText THEN <<name, ShortAddr(bidder)>>
                                               ELSE ShortAddr(bidder))
                        ELSE <<"No bids yet">>
    /\ minNextBidText' = formatEther(DisplayNextMinBid(cb))
    /\ messageText' = IF msg # NoText THEN msg ELSE "No message yet"

\* The subtraction with its operands swapped.
RemainingSwapped(end, t) == t - end

\* remaining = end - now, in updateTimer
Remaining(end, t) == end - t

Ended == [state |-> "AUCTION ENDED", h |-> 0, m |-> 0, s |-> 0]

\* updateTimer(): what one tick writes.
UpdateTimer ==
    LET remaining == Remaining(endTimeValue', now) IN
    IF remaining <= 0
       THEN /\ timerText' = Ended
            /\ contributeDisabled' = TRUE
       ELSE /\ timerText' = [state |-> "RUNNING", h |-> remaining \div 3600,
                             m |-> (remaining % 3600) \div 60, s |-> remaining % 60]
            /\ UNCHANGED contributeDisabled

\* ------------------------------------------------------- the chain (external)

LastAmount == IF Len(chain) = 0 THEN 0 ELSE chain[Len(chain)].amount

\* Totals a bidder may raise their bid to.
BidTotals == {10, 20, 30}

\* bidHistory(i) succeeds exactly for the indices the chain holds.
Exists(i) == i >= 0 /\ i < Len(chain)

\* The contract accepts a contribution that raises the sender's cumulative
\* total to `total`: it records the ledger, appends the bid and emits NewBid.
Mine(sender, total, content) ==
    /\ Len(chain) < MaxBids
    /\ total >= LastAmount + MinIncrement
    /\ total >= fullBids[sender]
    /\ chain' = Append(chain, [sender |-> sender, amount |-> total, content |-> content])
    /\ fullBids' = [fullBids EXCEPT ![sender] = total]

\* A bid placed outside this client by one of `senders`.
ChainBid(senders) ==
    /\ \E s \in senders, t \in BidTotals : Mine(s, t, "yo")
    /\ UNCHANGED <<chainEnd, now, walletAccount, walletVars, subs, endTimeValue,
                   bidVars, lastBidderName, runs, nameLookups, timerVars,
                   pageVars, status, dialogVars, submitVars>>
    /\ UNCHANGED sideVars

\* --------------------------------------------- initializeAuctionData (397-441)

NewRun == [pc |-> "endTime", latestIndex |-> 0, probed |-> <<>>, fetched |-> <<>>,
           nameArg |-> NoAddr]

SetRun(r, new) == runs' = [runs EXCEPT ![r] = new]

\* contract.removeAllListeners("NewBid"); contract.on("NewBid", ...): the
\* current contract object has one listener; other objects keep theirs.
RegisterListener ==
    subs' = IF subs[contract.id] # NotSubscribed
               THEN subs
               ELSE [subs EXCEPT ![contract.id] = [from |-> Len(chain), next |-> Len(chain)]]

\* initializeAuctionData() is called: up to `await contract.endTime()`.
StartRun ==
    /\ Len(runs) < MaxRuns
    /\ runs' = Append(runs, NewRun)
    /\ UNCHANGED <<chainVars, walletVars, subs, endTimeValue, bidVars,
                   lastBidderName, nameLookups, timerVars, pageVars, status,
                   dialogVars, submitVars>>
    /\ UNCHANGED sideVars

\* endTime() resolved: endTimeValue is set, startTimer() runs one tick and starts
\* an interval, and the first probe, bidHistory(latestIndex + 1), is issued.
EndTimeResolved(r) ==
    /\ runs[r].pc = "endTime"
    /\ endTimeValue' = chainEnd
    /\ UpdateTimer
    /\ timers' = timers + 1
    /\ SetRun(r, [runs[r] EXCEPT !.pc = "probe",
                                 !.probed = <<runs[r].latestIndex + 1>>])
    /\ UNCHANGED <<chainVars, walletVars, subs, bidVars, lastBidderName,
                   nameLookups, pageVars, status, dialogVars, submitVars>>
    /\ UNCHANGED sideVars

\* endTime() rejected: the outer catch logs and the run ends.
EndTimeFailed(r) ==
    /\ runs[r].pc = "endTime"
    /\ SetRun(r, [runs[r] EXCEPT !.pc = "done"])
    /\ UNCHANGED <<chainVars, walletVars, subs, endTimeValue, bidVars,
                   lastBidderName, nameLookups, timerVars, pageVars, status,
                   dialogVars, submitVars>>
    /\ UNCHANGED sideVars

\* The probe succeeded: latestIndex++, and the next probe is issued.
ProbeFound(r) ==
    /\ runs[r].pc = "probe"
    /\ Exists(runs[r].latestIndex + 1)
    /\ SetRun(r, [runs[r] EXCEPT !.latestIndex = @ + 1,
                                 !.probed = Append(@, runs[r].latestIndex + 2)])
    /\ UNCHANGED <<chainVars, walletVars, subs, endTimeValue, bidVars,
                   lastBidderName, nameLookups, timerVars, pageVars, status,
                   dialogVars, submitVars>>
    /\ UNCHANGED sideVars

\* The loop breaks; latestIndex >= 0 holds, so bidHistory(latestIndex) is read.
ProbeBreak(r) ==
    SetRun(r, [runs[r] EXCEPT !.pc = "fetch", !.fetched = <<runs[r].latestIndex>>])

\* The probe failed because the index does not exist.
ProbeNotFound(r) ==
    /\ runs[r].pc = "probe"
    /\ ~Exists(runs[r].latestIndex + 1)
    /\ ProbeBreak(r)
    /\ UNCHANGED <<chainVars, walletVars, subs, endTimeValue, bidVars,
                   lastBidderName, nameLookups, timerVars, pageVars, status,
                   dialogVars, submitVars>>
    /\ UNCHANGED sideVars

\* The probe of an existing index failed transiently (an RPC error): the bare
\* catch cannot tell it from "not found".
ProbeTransient(r) ==
    /\ runs[r].pc = "probe"
    /\ Exists(runs[r].latestIndex + 1)
    /\ ProbeBreak(r)
    /\ UNCHANGED <<chainVars, walletVars, subs, endTimeValue, bidVars,
                   lastBidderName, nameLookups, timerVars, pageVars, status,
                   dialogVars, submitVars>>
    /\ UNCHANGED sideVars

\* bidHistory(latestIndex) resolved: the three globals are written and
\* addressToName(lastBidder) is awaited.
FetchResolved(r) ==
    /\ runs[r].pc = "fetch"
    /\ Exists(runs[r].latestIndex)
    /\ LET latestBid == chain[runs[r].latestIndex + 1] IN
        /\ lastBidder' = latestBid.sender
        /\ currentBid' = latestBid.amount
        /\ lastMessage' = latestBid.content
        /\ SetRun(r, [runs[r] EXCEPT !.pc = "name", !.nameArg = latestBid.sender])
    /\ UNCHANGED <<chainVars, walletVars, subs, endTimeValue, lastBidderName,
                   nameLookups, timerVars, pageVars, status, dialogVars,
                   submitVars>>
    /\ UNCHANGED sideVars

\* bidHistory(latestIndex) rejected because the index does not exist (only
\* index 0 of an empty history can): the inner catch logs, and the NewBid
\* listener is registered.
FetchNotFound(r) ==
    /\ runs[r].pc = "fetch"
    /\ ~Exists(runs[r].latestIndex)
    /\ RegisterListener
    /\ SetRun(r, [runs[r] EXCEPT !.pc = "done"])
    /\ UNCHANGED <<chainVars, walletVars, endTimeValue, bidVars, lastBidderName,
                   nameLookups, timerVars, pageVars, status, dialogVars,
                   submitVars>>
    /\ UNCHANGED sideVars

\* bidHistory(latestIndex) of an existing index rejected with an RPC error: the
\* same catch.
FetchTransient(r) ==
    /\ runs[r].pc = "fetch"
    /\ Exists(runs[r].latestIndex)
    /\ RegisterListener
    /\ SetRun(r, [runs[r] EXCEPT !.pc = "done"])
    /\ UNCHANGED <<chainVars, walletVars, endTimeValue, bidVars, lastBidderName,
                   nameLookups, timerVars, pageVars, status, dialogVars,
                   submitVars>>
    /\ UNCHANGED sideVars

\* addressToName resolved: lastBidderName is written, updateDisplay() runs on
\* the globals as they are now, and the NewBid listener is registered.
NameResolved(r) ==
    /\ runs[r].pc = "name"
    /\ lastBidderName' = NameOf(runs[r].nameArg)
    /\ UpdateDisplay(lastBidder, lastBidderName', currentBid, lastMessage)
    /\ RegisterListener
    /\ SetRun(r, [runs[r] EXCEPT !.pc = "done"])
    /\ UNCHANGED <<chainVars, walletVars, endTimeValue, bidVars, nameLookups,
                   timerVars, status, dialogVars, submitVars>>
    /\ UNCHANGED sideVars

\* addressToName rejected: the inner catch logs, the listener is registered.
NameFailed(r) ==
    /\ runs[r].pc = "name"
    /\ RegisterListener
    /\ SetRun(r, [runs[r] EXCEPT !.pc = "done"])
    /\ UNCHANGED <<chainVars, walletVars, endTimeValue, bidVars, lastBidderName,
                   nameLookups, timerVars, pageVars, status, dialogVars,
                   submitVars>>
    /\ UNCHANGED sideVars

\* ------------------------------------------------- the NewBid handler (428-436)

\* A NewBid handler that writes the bidder and the amount and leaves the
\* message for later.
DeliverNewBidInTwoParts(o) ==
    /\ subs[o] # NotSubscribed
    /\ subs[o].next < Len(chain)
    /\ LET ev == chain[subs[o].next + 1] IN
        /\ lastBidder' = ev.sender
        /\ currentBid' = ev.amount
        /\ nameLookups' = nameLookups \cup {ev.sender}
    /\ subs' = [subs EXCEPT ![o].next = @ + 1]
    /\ UNCHANGED <<chainVars, walletVars, endTimeValue, lastMessage,
                   lastBidderName, runs, timerVars, pageVars, status,
                   dialogVars, submitVars>>
    /\ UNCHANGED sideVars

\* A NewBid event reaches the listener of contract object o.
DeliverNewBid(o) ==
    /\ subs[o] # NotSubscribed
    /\ subs[o].next < Len(chain)
    /\ LET ev == chain[subs[o].next + 1] IN
        /\ lastBidder' = ev.sender
        /\ currentBid' = ev.amount
        /\ lastMessage' = ev.content
        /\ nameLookups' = nameLookups \cup {ev.sender}
    /\ subs' = [subs EXCEPT ![o].next = @ + 1]
    /\ UNCHANGED <<chainVars, walletVars, endTimeValue, lastBidderName, runs,
                   timerVars, pageVars, status, dialogVars, submitVars>>
    /\ UNCHANGED sideVars

\* contract.addressToName(bidder).then(...) of a NewBid handler resolves.
NameLookupResolved(a) ==
    /\ a \in nameLookups
    /\ nameLookups' = nameLookups \ {a}
    /\ lastBidderName' = NameOf(a)
    /\ UpdateDisplay(lastBidder, lastBidderName', currentBid, lastMessage)
    /\ UNCHANGED <<chainVars, walletVars, subs, endTimeValue, bidVars, runs,
                   timerVars, status, dialogVars, submitVars>>
    /\ UNCHANGED sideVars

\* ... or rejects: nothing handles the rejection.
NameLookupFailed(a) ==
    /\ a \in nameLookups
    /\ nameLookups' = nameLookups \ {a}
    /\ UNCHANGED <<chainVars, walletVars, subs, endTimeValue, bidVars,
                   lastBidderName, runs, timerVars, pageVars, status,
                   dialogVars, submitVars>>
    /\ UNCHANGED sideVars

\* ----------------------------------------------------- the countdown (443-467)

\* One second passes on the wall clock.
ClockTick ==
    /\ now < MaxTime
    /\ now' = now + 1
    /\ UNCHANGED <<chain, fullBids, chainEnd, walletAccount, walletVars, subs,
                   endTimeValue, bidVars, lastBidderName, runs, nameLookups,
                   timerVars, pageVars, status, dialogVars, submitVars>>
    /\ UNCHANGED sideVars

\* The callback of one of the intervals startTimer() created.
TimerTick ==
    /\ timers > 0
    /\ UNCHANGED endTimeValue
    /\ UpdateTimer
    /\ UNCHANGED <<chainVars, walletVars, subs, bidVars, lastBidderName, runs,
                   nameLookups, timers, pageVars, status, dialogVars, submitVars>>
    /\ UNCHANGED sideVars

\* ------------------------------------------------------------ wallet (50-116)

Remove(seq, i) == [j \in 1..(Len(seq) - 1) |-> IF j < i THEN seq[j] ELSE seq[j + 1]]

Idle == [pc |-> "idle", nextMinBid |-> 0, addr |-> NoAddr]

\* contribute() from line 492 on: nextMinBid is computed from currentBid, and
\* contract.fullBids(userAddress) is awaited.
ReadLedger == [pc |-> "fullBids", nextMinBid |-> ContributeNextMinBid(currentBid),
               addr |-> userAddress]

\* connectWallet() is called: up to `await eth_requestAccounts`.
CallConnect(by) ==
    /\ nObjs + Len(conn) < MaxObjs
    /\ conn' = Append(conn, [pc |-> "accounts", by |-> by])

\* A connectWallet flow returns `ok`; the contribute() awaiting it, if any,
\* goes on (lines 475-495).
ConnectReturns(i, ok, msg) ==
    /\ conn' = Remove(conn, i)
    /\ IF conn[i].by = "contribute"
          THEN IF ok THEN /\ openFlow' = ReadLedger
                          /\ status' = msg
                     ELSE /\ openFlow' = Idle
                          /\ status' = <<"Could not connect wallet", "error">>
          ELSE /\ UNCHANGED openFlow
               /\ status' = msg

\* Lines 64-70: a signer-bound contract object replaces the current one.
InstallSigner(i) ==
    /\ nObjs < MaxObjs
    /\ contract' = [id |-> nObjs, signer |-> TRUE]
    /\ nObjs' = nObjs + 1
    /\ ConnectReturns(i, TRUE, <<"Wallet connected successfully", "success">>)

connectFrame == <<chainVars, subs, endTimeValue, bidVars, lastBidderName, runs,
                  nameLookups, timerVars, pageVars, modalVisible, bidInput,
                  messageInput, submitDisabled, onclick, submitVars>>

\* eth_requestAccounts resolved: userAddress = accounts[0]; eth_chainId is awaited.
AccountsGranted(i) ==
    /\ conn[i].pc = "accounts"
    /\ userAddress' = walletAccount
    /\ conn' = [conn EXCEPT ![i].pc = "chainId"]
    /\ UNCHANGED <<contract, nObjs, openFlow, status, connectFrame>>
    /\ UNCHANGED sideVars

\* eth_requestAccounts rejected: the catch reports and returns false.
AccountsRejected(i) ==
    /\ conn[i].pc = "accounts"
    /\ ConnectReturns(i, FALSE, <<"Failed to connect wallet", "error">>)
    /\ UNCHANGED <<contract, nObjs, userAddress, connectFrame>>
    /\ UNCHANGED sideVars

\* checkAndSwitchNetwork: the wallet is on the designated chain.
ChainIdMatches(i) ==
    /\ conn[i].pc = "chainId"
    /\ InstallSigner(i)
    /\ UNCHANGED <<userAddress, connectFrame>>
    /\ UNCHANGED sideVars

\* ... or on another one: a switch is requested.
ChainIdDiffers(i) ==
    /\ conn[i].pc = "chainId"
    /\ conn' = [conn EXCEPT ![i].pc = "switch"]
    /\ status' = <<"Please switch network", "warning">>
    /\ UNCHANGED <<contract, nObjs, userAddress, openFlow, connectFrame>>
    /\ UNCHANGED sideVars

\* eth_chainId rejected: checkAndSwitchNetwork returns false.
ChainIdFailed(i) ==
    /\ conn[i].pc = "chainId"
    /\ ConnectReturns(i, FALSE, <<"Network switch failed", "error">>)
    /\ UNCHANGED <<contract, nObjs, userAddress, connectFrame>>
    /\ UNCHANGED sideVars

\* wallet_switchEthereumChain resolved.
SwitchDone(i) ==
    /\ conn[i].pc = "switch"
    /\ InstallSigner(i)
    /\ UNCHANGED <<userAddress, connectFrame>>
    /\ UNCHANGED sideVars

\* ... rejected with code 4902: addNetwork() is awaited.
SwitchUnknownChain(i) ==
    /\ conn[i].pc = "switch"
    /\ conn' = [conn EXCEPT ![i].pc = "add"]
    /\ UNCHANGED <<contract, nObjs, userAddress, openFlow, status, connectFrame>>
    /\ UNCHANGED sideVars

\* A connectWallet that goes on after a switch that failed.
SwitchFailedIgnored(i) ==
    /\ conn[i].pc = "switch"
    /\ InstallSigner(i)
    /\ UNCHANGED <<userAddress, connectFrame>>
    /\ UNCHANGED sideVars

\* ... rejected with another code: rethrown, checkAndSwitchNetwork returns false.
SwitchFailed(i) ==
    /\ conn[i].pc = "switch"
    /\ ConnectReturns(i, FALSE, <<"Network switch failed", "error">>)
    /\ UNCHANGED <<contract, nObjs, userAddress, connectFrame>>
    /\ UNCHANGED sideVars

\* wallet_addEthereumChain resolved.
AddDone(i) ==
    /\ conn[i].pc = "add"
    /\ InstallSigner(i)
    /\ UNCHANGED <<userAddress, connectFrame>>
    /\ UNCHANGED sideVars

\* ... rejected: addNetwork throws, checkAndSwitchNetwork returns false.
AddFailed(i) ==
    /\ conn[i].pc = "add"
    /\ ConnectReturns(i, FALSE, <<"Network switch failed", "error">>)
    /\ UNCHANGED <<contract, nObjs, userAddress, connectFrame>>
    /\ UNCHANGED sideVars

\* disconnectWallet(): a read-only contract object replaces the current one.
Disconnect ==
    /\ nObjs + Len(conn) < MaxObjs
    /\ userAddress' = NoAddr
    /\ contract' = [id |-> nObjs, signer |-> FALSE]
    /\ nObjs' = nObjs + 1
    /\ status' = <<"Wallet disconnected", "success">>

\* The wallet button is clicked (383-393).
WalletButton ==
    /\ IF userAddress # NoAddr
          THEN Disconnect /\ UNCHANGED conn
          ELSE CallConnect("button") /\ UNCHANGED <<contract, nObjs, userAddress, status>>
    /\ UNCHANGED <<openFlow, connectFrame>>
    /\ UNCHANGED sideVars

\* The wallet selects account a and reports accountsChanged([a]) (360-367).
AccountsChanged(a) ==
    /\ a # walletAccount
    /\ walletAccount' = a
    /\ IF a # userAddress
          THEN userAddress' = a /\ CallConnect("accountsChanged")
          ELSE UNCHANGED <<userAddress, conn>>
    /\ UNCHANGED <<chain, fullBids, chainEnd, now, contract, nObjs, subs,
                   endTimeValue, bidVars, lastBidderName, runs, nameLookups,
                   timerVars, pageVars, status, dialogVars, submitVars>>
    /\ UNCHANGED sideVars

\* The wallet reports accountsChanged([]): the site was disconnected or the
\* wallet locked.
AccountsCleared ==
    /\ Disconnect
    /\ UNCHANGED <<conn, openFlow, connectFrame>>
    /\ UNCHANGED sideVars

\* ------------------------------------------------------ contribute() (471-577)

\* A text in #bid-amount that parseEther rejects (empty, not a number).
BadText == [whole |-> -1, frac |-> 0]
Parses(t) == t.whole >= 0

\* What the user may type into #bid-amount.
BidTexts == {formatEther(t) : t \in BidTotals} \cup {BadText}

\* The contribute button is clicked: contribute() up to its first await.
ContributeClick ==
    /\ ~contributeDisabled
    /\ openFlow.pc = "idle"
    /\ IF userAddress = NoAddr
          THEN /\ CallConnect("contribute")
               /\ openFlow' = [Idle EXCEPT !.pc = "connecting"]
          ELSE /\ openFlow' = ReadLedger
               /\ UNCHANGED conn
    /\ UNCHANGED <<contract, nObjs, userAddress, status, connectFrame>>
    /\ UNCHANGED sideVars

\* fullBids(userAddress) resolved: lines 497-576 fill the dialog, install the
\* submit handler (a closure over userFullBid) and show the modal.
FullBidsResolved ==
    /\ openFlow.pc = "fullBids"
    /\ openFlow.addr \in Addrs
    /\ bidInput' = formatEther(openFlow.nextMinBid)   \* value and min
    /\ onclick' = [set |-> TRUE, userFullBid |-> fullBids[openFlow.addr]]
    /\ modalVisible' = TRUE
    /\ openFlow' = Idle
    /\ UNCHANGED <<chainVars, walletVars, subs, endTimeValue, bidVars,
                   lastBidderName, runs, nameLookups, timerVars, pageVars,
                   status, messageInput, submitDisabled, submitVars>>
    /\ UNCHANGED sideVars

\* fullBids rejected (an RPC error, or userAddress is null by now): contribute()
\* throws and nothing is shown.
FullBidsFailed ==
    /\ openFlow.pc = "fullBids"
    /\ openFlow' = Idle
    /\ UNCHANGED <<chainVars, walletVars, subs, endTimeValue, bidVars,
                   lastBidderName, runs, nameLookups, timerVars, pageVars,
                   status, modalVisible, bidInput, messageInput,
                   submitDisabled, onclick, submitVars>>
    /\ UNCHANGED sideVars

\* The user edits #bid-amount.
TypeBid(t) ==
    /\ modalVisible
    /\ bidInput' = t
    /\ UNCHANGED <<chainVars, walletVars, subs, endTimeValue, bidVars,
                   lastBidderName, runs, nameLookups, timerVars, pageVars,
                   status, openFlow, modalVisible, messageInput,
                   submitDisabled, onclick, submitVars>>
    /\ UNCHANGED sideVars

\* The user edits #bid-message: the input listener (523-534) sets the submit
\* button's disabled flag.
TypeMessage(m) ==
    /\ modalVisible
    /\ onclick.set
    /\ messageInput' = m
    /\ submitDisabled' = (Length(m) > MaxMessageLen)
    /\ UNCHANGED <<chainVars, walletVars, subs, endTimeValue, bidVars,
                   lastBidderName, runs, nameLookups, timerVars, pageVars,
                   status, openFlow, modalVisible, bidInput, onclick,
                   submitVars>>
    /\ UNCHANGED sideVars

\* A click on the overlay, or Escape (570-584).
CloseModal ==
    /\ modalVisible
    /\ modalVisible' = FALSE
    /\ UNCHANGED <<chainVars, walletVars, subs, endTimeValue, bidVars,
                   lastBidderName, runs, nameLookups, timerVars, pageVars,
                   status, openFlow, bidInput, messageInput,
                   submitDisabled, onclick, submitVars>>
    /\ UNCHANGED sideVars

\* -------------------------------------------- submitButton.onclick (537-564)

\* A run of the handler suspended at an await: what it sends and holds.
NewSubmit(value) ==
    [pc |-> "contribute", value |-> value, message |-> messageInput,
     signed |-> contract.signer, from |-> NoAddr]

\* Lines 538-551, up to `await contract.contribute(...)`.
SubmitHandler ==
    IF ~Parses(bidInput)
       THEN \* parseEther throws outside the try: the handler's promise rejects
            UNCHANGED <<submits, status>>
       ELSE IF Length(messageInput) > MaxMessageLen
       THEN /\ status' = <<"Message too long (max 256 characters)", "error">>
            /\ UNCHANGED submits
       ELSE LET bidAmount == parseEther(bidInput)
                amountToSend == bidAmount - onclick.userFullBid
            IN  /\ submits' = Append(submits, NewSubmit(amountToSend))
                /\ UNCHANGED status

\* The submit button of the dialog is clicked.
SubmitClick ==
    /\ modalVisible
    /\ ~submitDisabled
    /\ onclick.set
    /\ Len(submits) < MaxSubmits
    /\ SubmitHandler
    /\ UNCHANGED <<chainVars, walletVars, subs, endTimeValue, bidVars,
                   lastBidderName, runs, nameLookups, timerVars, pageVars,
                   dialogVars>>
    /\ UNCHANGED sideVars

\* contract.contribute resolved: the wallet signed with its selected account
\* and the transaction is pending; the modal is hidden and tx.wait() awaited.
ContributeSent(i) ==
    /\ submits[i].pc = "contribute"
    /\ submits[i].signed
    /\ submits[i].value >= 0
    /\ submits' = [submits EXCEPT ![i].pc = "wait", ![i].from = walletAccount]
    /\ modalVisible' = FALSE
    /\ status' = <<"Transaction submitted...", "warning">>
    /\ UNCHANGED <<chainVars, walletVars, subs, endTimeValue, bidVars,
                   lastBidderName, runs, nameLookups, timerVars, pageVars,
                   openFlow, bidInput, messageInput, submitDisabled,
                   onclick>>
    /\ UNCHANGED sideVars

\* contract.contribute rejected (no signer, a value that cannot be encoded, the
\* user declined, insufficient funds): the catch reports it.
ContributeRejected(i) ==
    /\ submits[i].pc = "contribute"
    /\ submits' = Remove(submits, i)
    /\ status' = <<"contribute failed", "error">>
    /\ UNCHANGED <<chainVars, walletVars, subs, endTimeValue, bidVars,
                   lastBidderName, runs, nameLookups, timerVars, pageVars,
                   dialogVars>>
    /\ UNCHANGED sideVars

\* The pending transaction is mined and accepted by the contract.
TxMined(i) ==
    /\ submits[i].pc = "wait"
    /\ Mine(submits[i].from, fullBids[submits[i].from] + submits[i].value,
            submits[i].message)
    /\ submits' = [submits EXCEPT ![i].pc = "mined"]
    /\ UNCHANGED <<chainEnd, now, walletAccount, walletVars, subs, endTimeValue,
                   bidVars, lastBidderName, runs, nameLookups, timerVars,
                   pageVars, status, dialogVars>>
    /\ UNCHANGED sideVars

\* A handler that, once confirmed, writes its own bid into the cached state
\* instead of leaving that to the NewBid event.
WaitResolvedOptimistic(i) ==
    /\ submits[i].pc = "mined"
    /\ submits' = Remove(submits, i)
    /\ status' = <<"Bid placed successfully!", "success">>
    /\ currentBid' = fullBids[submits[i].from]
    /\ lastBidder' = submits[i].from
    /\ lastMessage' = submits[i].message
    /\ UNCHANGED <<chainVars, walletVars, subs, endTimeValue, lastBidderName,
                   runs, nameLookups, timerVars, pageVars, dialogVars>>
    /\ UNCHANGED sideVars

\* tx.wait() resolved: the handler ends.
WaitResolved(i) ==
    /\ submits[i].pc = "mined"
    /\ submits' = Remove(submits, i)
    /\ status' = <<"Bid placed successfully!", "success">>
    /\ UNCHANGED <<chainVars, walletVars, subs, endTimeValue, bidVars,
                   lastBidderName, runs, nameLookups, timerVars, pageVars,
                   dialogVars>>
    /\ UNCHANGED sideVars

\* The transaction reverted, so tx.wait() rejected: the catch reports it.
WaitRejected(i) ==
    /\ submits[i].pc = "wait"
    /\ submits' = Remove(submits, i)
    /\ status' = <<"transaction failed", "error">>
    /\ UNCHANGED <<chainVars, walletVars, subs, endTimeValue, bidVars,
                   lastBidderName, runs, nameLookups, timerVars, pageVars,
                   dialogVars>>
    /\ UNCHANGED sideVars

\* ------------------------------------------------- DataUpdated queue (140-201)

\* dataCache as declared (7-13); isProcessing is not declared and reads as false.
InitCache ==
    /\ pendingUpdates = <<>>
    /\ processedTransactions = {}
    /\ isProcessing = FALSE
    /\ drains = <<>>
    /\ dataSubs = {}
    /\ notified = <<>>
    /\ refreshed = <<>>


\* Everything but dataCache and the registration dialog.
mainVars == <<chainVars, walletVars, subs, endTimeValue, bidVars, lastBidderName,
              runs, nameLookups, timerVars, pageVars, status, dialogVars,
              submitVars>>

\* CONFIG.BATCH_SIZE.
BatchSize == 2

\* Identifiers and transaction hashes DataUpdated events carry; hashes are
\* numbered in the order the handler first sees them.
Ids == 1..3
Txs == 1..MaxEvents

Range(q) == {q[k] : k \in 1..Len(q)}

\* Set.prototype.add on a Set, which iterates in insertion order.
SetAdd(q, x) == IF x \in Range(q) THEN q ELSE Append(q, x)

\* updates.slice(i, i + CONFIG.BATCH_SIZE)
Batch(updates, i) ==
    SubSeq(updates, i + 1,
           IF i + BatchSize < Len(updates) THEN i + BatchSize ELSE Len(updates))

\* A guard that lets every call drain.
BusyNever == FALSE

\* if (dataCache.isProcessing) return;
Busy == isProcessing

\* One pass of the while loop begins (167-172): the pending identifiers are
\* copied and cleared, and the first batch is handed to updateSingleItem.
NewPass(pend) == [pc |-> "batch", updates |-> pend, i |-> 0]

\* processDataQueue() from its call to its first await, or to its return, with
\* the guard reading `busy`, the other drains `ds` and the pending set `pend`.
ProcessDataQueue(busy, ds, pend) ==
    IF busy
       THEN /\ pendingUpdates' = pend
            /\ drains' = ds
            /\ UNCHANGED <<isProcessing, refreshed>>
       ELSE IF pend # <<>>
               THEN /\ isProcessing' = TRUE
                    /\ pendingUpdates' = <<>>
                    /\ drains' = Append(ds, NewPass(pend))
                    /\ refreshed' = refreshed \o Batch(pend, 0)
               ELSE \* the loop is skipped; finally clears the flag
                    /\ isProcessing' = FALSE
                    /\ pendingUpdates' = pend
                    /\ drains' = ds
                    /\ UNCHANGED refreshed

\* The finally block of drain d (179-184): the flag is cleared and, when
\* identifiers are pending, processDataQueue() is called again.
EndDrain(d) == ProcessDataQueue(FALSE, Remove(drains, d), pendingUpdates)

\* A drain that stops after the pass it is in, whatever is pending.
AfterPassNoRecheck(d) ==
    /\ isProcessing' = FALSE
    /\ drains' = Remove(drains, d)
    /\ UNCHANGED <<pendingUpdates, refreshed>>

\* The for loop of drain d is over: the while condition is read again (166).
AfterPass(d) ==
    IF pendingUpdates # <<>>
       THEN /\ drains' = [drains EXCEPT ![d] = NewPass(pendingUpdates)]
            /\ pendingUpdates' = <<>>
            /\ refreshed' = refreshed \o Batch(pendingUpdates, 0)
            /\ UNCHANGED isProcessing
       ELSE EndDrain(d)

\* setupEventListener() (187-201): the current contract object gets the
\* DataUpdated listener, in place of the one it had.
SetupEventListener ==
    /\ contract.id \notin dataSubs
    /\ dataSubs' = dataSubs \cup {contract.id}
    /\ UNCHANGED <<pendingUpdates, processedTransactions, isProcessing, drains,
                   notified, refreshed>>
    /\ UNCHANGED <<mainVars, registerVars>>

\* The DataUpdated handler (191-199) runs for an event (id, tx).
DataUpdated(o, id, tx) ==
    /\ o \in dataSubs
    /\ Len(notified) < MaxEvents
    /\ tx <= Cardinality(processedTransactions) + 1
    /\ notified' = Append(notified, [id |-> id, tx |-> tx])
    /\ IF tx \in processedTransactions
          THEN UNCHANGED <<pendingUpdates, processedTransactions, isProcessing,
                           drains, refreshed>>
          ELSE /\ processedTransactions' = processedTransactions \cup {tx}
               /\ ProcessDataQueue(Busy, drains, SetAdd(pendingUpdates, id))
    /\ UNCHANGED dataSubs
    /\ UNCHANGED <<mainVars, registerVars>>

\* Promise.all of the batch resolved (172-177): the drain pauses before the
\* next batch, or the pass is over.
BatchResolved(d) ==
    /\ drains[d].pc = "batch"
    /\ IF drains[d].i + BatchSize < Len(drains[d].updates)
          THEN /\ drains' = [drains EXCEPT ![d].pc = "pause"]
               /\ UNCHANGED <<pendingUpdates, isProcessing, refreshed>>
          ELSE AfterPass(d)
    /\ UNCHANGED <<processedTransactions, dataSubs, notified>>
    /\ UNCHANGED <<mainVars, registerVars>>

\* The 100 ms pause is over: the next batch is handed to updateSingleItem.
PauseDone(d) ==
    /\ drains[d].pc = "pause"
    /\ drains' = [drains EXCEPT ![d].pc = "batch", ![d].i = @ + BatchSize]
    /\ refreshed' = refreshed \o Batch(drains[d].updates, drains[d].i + BatchSize)
    /\ UNCHANGED <<pendingUpdates, processedTransactions, isProcessing, dataSubs,
                   notified>>
    /\ UNCHANGED <<mainVars, registerVars>>

\* Promise.all of the batch rejected, because the refresh of one of its
\* identifiers failed: nothing catches, and the finally block runs.
BatchRejected(d) ==
    /\ drains[d].pc = "batch"
    /\ EndDrain(d)
    /\ UNCHANGED <<processedTransactions, dataSubs, notified>>
    /\ UNCHANGED <<mainVars, registerVars>>

\* --------------------------------------------------- handleRegister (237-291)

\* The registration dialog before handleRegister ran.
InitRegister ==
    /\ registerModal = FALSE
    /\ nameInput = <<>>
    /\ regOnclick = FALSE
    /\ registers = <<>>


\* What the registration handlers leave alone, apart from the status line.
registerFrame == <<chainVars, walletVars, subs, endTimeValue, bidVars,
                   lastBidderName, runs, nameLookups, timerVars, pageVars,
                   dialogVars, submitVars, cacheVars>>

\* Texts of #name-input, as runs of equal characters: spaces and letters.
Runs == {[ch |-> " ", n |-> 1], [ch |-> " ", n |-> 2], [ch |-> "a", n |-> 1],
         [ch |-> "a", n |-> MaxNameLen - 1], [ch |-> "a", n |-> MaxNameLen]}
NameTexts == UNION {[1..k -> Runs] : k \in 0..2}

\* name.length
RECURSIVE TextLen(_)
TextLen(v) == IF v = <<>> THEN 0 ELSE v[1].n + TextLen(Tail(v))

\* A trim that returns its argument.
TrimNothing(v) == v

\* String.prototype.trim: whitespace is dropped at both ends.
RECURSIVE TrimStart(_)
TrimStart(v) == IF v # <<>> /\ v[1].ch = " " THEN TrimStart(Tail(v)) ELSE v
RECURSIVE TrimEnd(_)
TrimEnd(v) ==
    IF v # <<>> /\ v[Len(v)].ch = " " THEN TrimEnd(SubSeq(v, 1, Len(v) - 1)) ELSE v
Trim(v) == TrimEnd(TrimStart(v))

\* handleRegister() (237-291): the register button is clicked.
HandleRegister ==
    /\ IF userAddress = NoAddr
          THEN /\ status' = <<"Please connect your wallet first", "warning">>
               /\ UNCHANGED registerVars
          ELSE /\ regOnclick' = TRUE
               /\ registerModal' = TRUE
               /\ UNCHANGED <<status, nameInput, registers>>
    /\ UNCHANGED registerFrame

\* The user edits #name-input.
TypeName(v) ==
    /\ registerModal
    /\ v # nameInput
    /\ nameInput' = v
    /\ UNCHANGED <<registerModal, regOnclick, registers, status, registerFrame>>

\* Overlay click (286-290).
CloseRegisterModal ==
    /\ registerModal
    /\ registerModal' = FALSE
    /\ UNCHANGED <<nameInput, regOnclick, registers, status, registerFrame>>

\* submit-name is clicked: the handler up to `await contract.register(name)`
\* or to its early return (254-268).
RegisterClick ==
    /\ registerModal
    /\ regOnclick
    /\ Len(registers) < MaxRegisters
    /\ LET name == Trim(nameInput) IN
          IF name = <<>>
             THEN /\ status' = <<"Please enter a name", "error">>
                  /\ UNCHANGED registers
             ELSE IF TextLen(name) > MaxNameLen
                     THEN /\ status' = <<"Name too long (max 32 characters)", "error">>
                          /\ UNCHANGED registers
                     ELSE /\ registers' = Append(registers,
                                                 [pc |-> "register", name |-> name])
                          /\ UNCHANGED status
    /\ UNCHANGED <<registerModal, nameInput, regOnclick, registerFrame>>

\* contract.register resolved with the transaction: the dialog is hidden and
\* tx.wait() is awaited (269-272).
RegisterSent(i) ==
    /\ registers[i].pc = "register"
    /\ registers' = [registers EXCEPT ![i].pc = "wait"]
    /\ registerModal' = FALSE
    /\ status' = <<"Transaction submitted...", "warning">>
    /\ UNCHANGED <<nameInput, regOnclick, registerFrame>>

\* contract.register rejected (276-279).
RegisterRejected(i) ==
    /\ registers[i].pc = "register"
    /\ registers' = Remove(registers, i)
    /\ status' = <<"Registration failed", "error">>
    /\ UNCHANGED <<registerModal, nameInput, regOnclick, registerFrame>>

\* tx.wait() resolved: success is shown and updateWalletDisplay() is awaited,
\* which returns at once without a user address (273-274, 210-226).
RegisterConfirmed(i) ==
    /\ registers[i].pc = "wait"
    /\ registers' = IF userAddress = NoAddr THEN Remove(registers, i)
                    ELSE [registers EXCEPT ![i].pc = "display"]
    /\ status' = <<"Name registered successfully!", "success">>
    /\ UNCHANGED <<registerModal, nameInput, regOnclick, registerFrame>>

\* tx.wait() rejected.
RegisterWaitRejected(i) ==
    /\ registers[i].pc = "wait"
    /\ registers' = Remove(registers, i)
    /\ status' = <<"Registration failed", "error">>
    /\ UNCHANGED <<registerModal, nameInput, regOnclick, registerFrame>>

\* updateWalletDisplay()'s addressToName resolved: the handler ends.
DisplayResolved(i) ==
    /\ registers[i].pc = "display"
    /\ registers' = Remove(registers, i)
    /\ UNCHANGED <<registerModal, nameInput, regOnclick, status, registerFrame>>

\* ... rejected: the handler's catch reports it.
DisplayRejected(i) ==
    /\ registers[i].pc = "display"
    /\ registers' = Remove(registers, i)
    /\ status' = <<"Registration failed", "error">>
    /\ UNCHANGED <<registerModal, nameInput, regOnclick, registerFrame>>

RegisterStep(i) ==
    \/ RegisterSent(i)
    \/ RegisterRejected(i)
    \/ RegisterConfirmed(i)
    \/ RegisterWaitRejected(i)
    \/ DisplayResolved(i)
    \/ DisplayRejected(i)

\* ------------------------------------------------------------ specifications

Objs == 0..(MaxObjs - 1)

\* The client right after initializeApp() created the read-only contract
\* (24-28), before any asynchronous flow has started.
InitClient ==
    /\ contract = [id |-> 0, signer |-> FALSE]
    /\ nObjs = 1
    /\ subs = [o \in Objs |-> NotSubscribed]
    /\ userAddress = NoAddr
    /\ endTimeValue = Undefined
    /\ currentBid = Undefined
    /\ lastBidder = NoAddr
    /\ lastBidderName = NoText
    /\ lastMessage = NoText
    /\ runs = <<>>
    /\ nameLookups = {}
    /\ conn = <<>>
    /\ timers = 0
    /\ timerText = [state |-> "", h |-> 0, m |-> 0, s |-> 0]
    /\ contributeDisabled = FALSE
    /\ winnerText = <<>>
    /\ minNextBidText = formatEther(0)
    /\ messageText = NoText
    /\ status = <<"", "">>
    /\ openFlow = Idle
    /\ modalVisible = FALSE
    /\ bidInput = formatEther(0)
    /\ messageInput = "gm"
    /\ submitDisabled = FALSE
    /\ onclick = [set |-> FALSE, userFullBid |-> 0]
    /\ submits = <<>>
    /\ InitCache
    /\ InitRegister

InitChain ==
    /\ chain = <<>>
    /\ fullBids = [a \in Addrs |-> 0]
    /\ chainEnd = MaxTime - 1
    /\ now = 0
    /\ walletAccount = "0xA"

Init == InitClient /\ InitChain

\* A step of a catch-up run whose reads answer as the chain stands.
ScanStep(r) ==
    \/ EndTimeResolved(r)
    \/ ProbeFound(r)
    \/ ProbeNotFound(r)
    \/ FetchResolved(r)
    \/ FetchNotFound(r)
    \/ NameResolved(r)

\* A step of a catch-up run in which a read fails with an RPC error.
ScanFails(r) ==
    \/ EndTimeFailed(r)
    \/ ProbeTransient(r)
    \/ FetchTransient(r)
    \/ NameFailed(r)

ConnStep(i) ==
    \/ AccountsGranted(i)
    \/ AccountsRejected(i)
    \/ ChainIdMatches(i)
    \/ ChainIdDiffers(i)
    \/ ChainIdFailed(i)
    \/ SwitchDone(i)
    \/ SwitchUnknownChain(i)
    \/ SwitchFailed(i)
    \/ AddDone(i)
    \/ AddFailed(i)

SubmitStep(i) ==
    \/ ContributeSent(i)
    \/ ContributeRejected(i)
    \/ TxMined(i)
    \/ WaitResolved(i)
    \/ WaitRejected(i)

\* The ingestion pipeline: bids arrive on chain, catch-up runs and NewBid
\* listeners feed the cached state, and the wallet button replaces the
\* contract object the listeners are registered on.
Next ==
    \/ ChainBid(Addrs)
    \/ StartRun
    \/ \E r \in 1..Len(runs) : ScanStep(r)
    \/ \E r \in 1..Len(runs) : ScanFails(r)
    \/ \E o \in Objs : DeliverNewBid(o)
    \/ \E a \in nameLookups : NameLookupResolved(a)
    \/ \E a \in nameLookups : NameLookupFailed(a)
    \/ \E i \in 1..Len(conn) : ConnStep(i)
    \/ WalletButton

Spec == Init /\ [][Next]_vars

\* ---- the catch-up scan against a chain that does not change

\* The bid histories the contract can hold: each bid raises the total by at
\* least MinIncrement.
BidRecords == [sender : Addrs, amount : BidTotals, content : Contents]

Histories ==
    {h \in UNION {[1..n -> BidRecords] : n \in 0..MaxBids} :
        \A j \in 1..Len(h) :
            h[j].amount >= (IF j = 1 THEN 0 ELSE h[j - 1].amount) + MinIncrement}

\* The ledger after history h: each sender's latest total.
LedgerOf(h) ==
    [a \in Addrs |->
        LET mine == {j \in 1..Len(h) : h[j].sender = a} IN
        IF mine = {} THEN 0
        ELSE h[CHOOSE j \in mine : \A l \in mine : l <= j].amount]

InitScan ==
    /\ InitClient
    /\ chain \in Histories
    /\ fullBids = LedgerOf(chain)
    /\ chainEnd = MaxTime - 1
    /\ now = 0
    /\ walletAccount = "0xA"

NextScan ==
    \/ StartRun
    \/ \E r \in 1..Len(runs) : ScanStep(r)

SpecScan == InitScan /\ [][NextScan]_vars

\* ---- bidding: the dialog and the submit handler

\* The page after account 0xA placed the bids of history h from elsewhere,
\* one catch-up run read h and registered its listener, and the wallet
\* button connected account 0xA.
Loaded(h) ==
    /\ chain = h
    /\ fullBids = LedgerOf(h)
    /\ chainEnd = MaxTime - 1
    /\ now = 0
    /\ walletAccount = "0xA"
    /\ contract = [id |-> 1, signer |-> TRUE]
    /\ nObjs = 2
    /\ subs = [o \in Objs |-> IF o = 0 THEN [from |-> Len(h), next |-> Len(h)]
                                      ELSE NotSubscribed]
    /\ userAddress = "0xA"
    /\ endTimeValue = chainEnd
    /\ currentBid = IF h = <<>> THEN Undefined ELSE h[Len(h)].amount
    /\ lastBidder = IF h = <<>> THEN NoAddr ELSE h[Len(h)].sender
    /\ lastBidderName = IF h = <<>> THEN NoText ELSE NameOf(h[Len(h)].sender)
    /\ lastMessage = IF h = <<>> THEN NoText ELSE h[Len(h)].content
    /\ runs = <<[pc |-> "done", latestIndex |-> IF h = <<>> THEN 0 ELSE Len(h) - 1,
                 probed |-> [j \in 1..(IF h = <<>> THEN 1 ELSE Len(h)) |-> j],
                 fetched |-> <<IF h = <<>> THEN 0 ELSE Len(h) - 1>>,
                 nameArg |-> IF h = <<>> THEN NoAddr ELSE h[Len(h)].sender]>>
    /\ nameLookups = {}
    /\ conn = <<>>
    /\ timers = 1
    /\ timerText = [state |-> "RUNNING", h |-> 0, m |-> 0, s |-> chainEnd]
    /\ contributeDisabled = FALSE
    /\ winnerText = IF h = <<>> THEN <<>>
                    ELSE <<NameOf(h[Len(h)].sender), ShortAddr(h[Len(h)].sender)>>
    /\ minNextBidText = IF h = <<>> THEN formatEther(0)
                        ELSE formatEther(h[Len(h)].amount + MinIncrement)
    /\ messageText = IF h = <<>> THEN NoText ELSE h[Len(h)].content
    /\ status = <<"Wallet connected successfully", "success">>
    /\ openFlow = Idle
    /\ modalVisible = FALSE
    /\ bidInput = formatEther(0)
    /\ messageInput = "gm"
    /\ submitDisabled = FALSE
    /\ onclick = [set |-> FALSE, userFullBid |-> 0]
    /\ submits = <<>>
    /\ InitCache
    /\ InitRegister

\* An auction without bids, and one where 0xA already bid a total of 20.
InitBid ==
    \/ Loaded(<<>>)
    \/ Loaded(<<[sender |-> "0xA", amount |-> 20, content |-> "yo"]>>)

\* Opening the dialog and submitting the amount it offers, while bids of
\* another account arrive and the NewBid listener feeds the cached state.
NextBid ==
    \/ ChainBid({"0xB"})
    \/ \E o \in Objs : DeliverNewBid(o)
    \/ \E a \in nameLookups : NameLookupResolved(a)
    \/ \E a \in nameLookups : NameLookupFailed(a)
    \/ ContributeClick
    \/ FullBidsResolved
    \/ FullBidsFailed
    \/ CloseModal
    \/ SubmitClick
    \/ \E i \in 1..Len(submits) : SubmitStep(i)

SpecBid == InitBid /\ [][NextBid]_vars

\* ---- bidding with the amount and the message edited by the user

NextDialog ==
    \/ \E o \in Objs : DeliverNewBid(o)
    \/ ContributeClick
    \/ FullBidsResolved
    \/ FullBidsFailed
    \/ \E t \in BidTexts : TypeBid(t)
    \/ \E m \in Messages : TypeMessage(m)
    \/ CloseModal
    \/ SubmitClick
    \/ \E i \in 1..Len(submits) : SubmitStep(i)

SpecDialog == InitBid /\ [][NextDialog]_vars

\* ---- bidding while the wallet changes its account

NextAccount ==
    \/ \E a \in Addrs : AccountsChanged(a)
    \/ \E i \in 1..Len(conn) : ConnStep(i)
    \/ ContributeClick
    \/ FullBidsResolved
    \/ FullBidsFailed
    \/ SubmitClick
    \/ \E i \in 1..Len(submits) : SubmitStep(i)

SpecAccount == InitBid /\ [][NextAccount]_vars

\* ---- the countdown: ticks, and catch-up runs that restart it while bids arrive

NextClock ==
    \/ ChainBid({"0xB"})
    \/ ClockTick
    \/ TimerTick
    \/ StartRun
    \/ \E r \in 1..Len(runs) : ScanStep(r)
    \/ \E r \in 1..Len(runs) : ScanFails(r)

SpecClock == InitBid /\ [][NextClock]_vars

\* ---- bidding against the countdown

NextDeadline ==
    \/ ClockTick
    \/ TimerTick
    \/ ContributeClick
    \/ FullBidsResolved
    \/ FullBidsFailed
    \/ CloseModal
    \/ SubmitClick
    \/ \E i \in 1..Len(submits) : SubmitStep(i)

SpecDeadline == InitBid /\ [][NextDeadline]_vars

\* ---- the whole client

NextAll ==
    \/ Next
    \/ NextDialog
    \/ \E a \in Addrs : AccountsChanged(a)
    \/ AccountsCleared
    \/ ClockTick
    \/ TimerTick

SpecAll == Init /\ [][NextAll]_vars

\* ---- the DataUpdated queue: notifications, drains, refreshes that may fail

NextQueue ==
    \/ SetupEventListener
    \/ \E o \in dataSubs, id \in Ids, tx \in Txs : DataUpdated(o, id, tx)
    \/ \E d \in 1..Len(drains) : BatchResolved(d)
    \/ \E d \in 1..Len(drains) : PauseDone(d)
    \/ \E d \in 1..Len(drains) : BatchRejected(d)

SpecQueue == Init /\ [][NextQueue]_vars

\* ---- the queue when no refresh fails and every pending promise settles

NextDrain ==
    \/ SetupEventListener
    \/ \E o \in dataSubs, id \in Ids, tx \in Txs : DataUpdated(o, id, tx)
    \/ \E d \in 1..Len(drains) : BatchResolved(d)
    \/ \E d \in 1..Len(drains) : PauseDone(d)

SpecDrain ==
    /\ Init
    /\ [][NextDrain]_vars
    /\ WF_vars(\E d \in 1..Len(drains) : BatchResolved(d))
    /\ WF_vars(\E d \in 1..Len(drains) : PauseDone(d))

\* ---- registration of a display name, with and without a connected wallet

InitPage == Init \/ InitBid

NextRegister ==
    \/ HandleRegister
    \/ \E v \in NameTexts : TypeName(v)
    \/ CloseRegisterModal
    \/ RegisterClick
    \/ \E i \in 1..Len(registers) : RegisterStep(i)

SpecRegister == InitPage /\ [][NextRegister]_vars

\* ---- ingestion on one contract object: catch-up runs and NewBid listeners

NextIngest ==
    \/ ChainBid(Addrs)
    \/ StartRun
    \/ \E r \in 1..Len(runs) : ScanStep(r)
    \/ \E r \in 1..Len(runs) : ScanFails(r)
    \/ \E o \in Objs : DeliverNewBid(o)
    \/ \E a \in nameLookups : NameLookupResolved(a)
    \/ \E a \in nameLookups : NameLookupFailed(a)

SpecIngest == Init /\ [][NextIngest]_vars

\* ---- the same with every read answering as the chain stands

NextNames ==
    \/ ChainBid(Addrs)
    \/ StartRun
    \/ \E r \in 1..Len(runs) : ScanStep(r)
    \/ \E o \in Objs : DeliverNewBid(o)
    \/ \E a \in nameLookups : NameLookupResolved(a)

SpecNames == Init /\ [][NextNames]_vars

\* ---- the wallet session: connecting, disconnecting, changing account

NextWallet ==
    \/ WalletButton
    \/ \E a \in Addrs : AccountsChanged(a)
    \/ AccountsCleared
    \/ \E i \in 1..Len(conn) : ConnStep(i)
    \/ ContributeClick
    \/ FullBidsResolved
    \/ FullBidsFailed

SpecWallet == Init /\ [][NextWallet]_vars

\* The bid histories of InitBid are reached from Init under SpecAll (a bid by
\* 0xA, a catch-up run, the wallet button and the connect flow).

\* ================================================================== claims

\* ---- C1 (checked under Spec)
\* Bid index k has been applied to the cached state: a NewBid listener
\* registered at or before k has moved past it, or a catch-up run read it.
EventApplied(k) ==
    \/ \E o \in Objs : subs[o].from # -1 /\ subs[o].from <= k /\ k < subs[o].next
    \/ \E r \in 1..Len(runs) : runs[r].nameArg # NoAddr /\ runs[r].latestIndex = k

\* C1: applying a bid event that was already applied (through another NewBid
\* listener or through a catch-up read) is a no-op: it leaves currentBid,
\* lastBidder and lastMessage as they are.
C1_SecondApplicationIsNoOp ==
    [][\A o \in Objs :
          (DeliverNewBid(o) /\ EventApplied(subs[o].next)) => UNCHANGED bidVars]_vars

\* ---- C2 (checked under Spec)
\* C2: the store never regresses to an older record: currentBid (unset, then
\* the amount of the record reflected, which grows with the index) never
\* decreases.
C2_NeverRegresses == [][currentBid' >= currentBid]_vars

\* ---- C3 (checked under SpecScan: the chain is fixed, no read fails transiently)
\* C3: with bid indices 0..k-1 on chain, a finished catch-up run has issued
\* exactly the k+1 existence probes 0, 1, .., k and the cached state is record
\* k-1 (untouched when k = 0).
C3_ScanProbesFromZero ==
    \A r \in 1..Len(runs) :
        runs[r].pc = "done" =>
            LET k == Len(chain) IN
            /\ runs[r].probed = [j \in 1..(k + 1) |-> j - 1]
            /\ IF k = 0
                  THEN currentBid = Undefined /\ lastBidder = NoAddr
                  ELSE /\ currentBid = chain[k].amount
                       /\ lastBidder = chain[k].sender
                       /\ lastMessage = chain[k].content

\* ---- C4 (checked under SpecAccount)
\* C4: whenever the submit handler calls contract.contribute for the requested
\* total T, the value it sends is T - P, P being the ledger amount, at that
\* moment, of the account that signs.
C4_PaymentDelta ==
    [][Len(submits') > Len(submits) =>
          submits'[Len(submits')].value =
              parseEther(bidInput) - fullBids[walletAccount]]_vars

\* ---- C5 (checked under SpecDialog)
\* C5: a submit click with a requested total below the caller's ledger amount
\* (T - P < 0) surfaces an error and makes no contract.contribute call.
C5_NegativeAmountRejected ==
    [][(SubmitClick /\ Parses(bidInput)
          /\ parseEther(bidInput) - onclick.userFullBid < 0)
       => (submits' = submits /\ status'[2] = "error")]_vars

\* ---- C6 (checked under SpecDialog)
\* C6: a submit click with a message longer than 256 characters, or with a
\* requested total not greater than currentBid + minIncrement (currentBid as
\* known at the click, nothing when unset), surfaces an error and makes no
\* contract.contribute call.
C6_InvalidInputRejected ==
    [][(SubmitClick /\ Parses(bidInput)
          /\ \/ Length(messageInput) > MaxMessageLen
             \/ ~(parseEther(bidInput) >
                    (IF currentBid = Undefined THEN 0 ELSE currentBid) + MinIncrement))
       => (submits' = submits /\ status'[2] = "error")]_vars

\* ---- C7 (checked under SpecBid)
\* C7: the next minimum bid is minIncrement while currentBid is unset and
\* currentBid + minIncrement once it is set: that is the amount updateDisplay
\* writes whenever it runs, the amount contribute() computes when it is
\* called, and the amount the dialog then offers. The two computations agree on
\* the unset currentBid, on zero and on the currentBid known.
C7_NextMinBid ==
    [][/\ (\E a \in nameLookups : NameLookupResolved(a)) =>
              minNextBidText' =
                  formatEther(IF currentBid' = Undefined THEN MinIncrement
                              ELSE currentBid' + MinIncrement)
       /\ (openFlow.pc # "fullBids" /\ openFlow'.pc = "fullBids") =>
              openFlow'.nextMinBid =
                  (IF currentBid = Undefined THEN MinIncrement
                   ELSE currentBid + MinIncrement)
       /\ FullBidsResolved => parseEther(bidInput') = openFlow.nextMinBid
       /\ \A cb \in {Undefined, 0, currentBid, currentBid'} :
              /\ DisplayNextMinBid(cb) = ContributeNextMinBid(cb)
              /\ cb # Undefined => DisplayNextMinBid(cb) = cb + MinIncrement
              /\ cb = Undefined => DisplayNextMinBid(cb) = MinIncrement]_vars

\* The dialog was opened on an auction without bids and offers minIncrement;
\* then 0xB bid and the display shows that bid plus minIncrement.
C7_Witness ==
    /\ modalVisible
    /\ bidInput = formatEther(MinIncrement)
    /\ currentBid # Undefined
    /\ lastBidder = "0xB"
    /\ nameLookups = {}
    /\ minNextBidText = formatEther(currentBid + MinIncrement)

\* ---- C8 (checked under SpecClock)
\* C8: once a tick has shown the auction as ended, no later tick of any
\* timer, and no catch-up run restarting the timer, shows it running again.
C8_EndedIsTerminal == [][timerText = Ended => timerText' = Ended]_vars

\* The deadline has passed, the countdown shows the end, and every catch-up
\* run of the session has re-read endTime and started its own timer.
C8_Witness ==
    /\ timerText = Ended
    /\ now > chainEnd
    /\ Len(runs) = MaxRuns
    /\ timers = MaxRuns
    /\ \A r \in 1..Len(runs) : runs[r].pc = "done"

\* ---- C9 (checked under SpecDeadline)
\* C9: once the countdown shows the auction as ended, the client makes no
\* further contract.contribute call.
C9_NoBidAfterEnd == [][timerText = Ended => Len(submits') <= Len(submits)]_vars

\* ---- C10 (checked under SpecBid)
\* C10: no step of the submit handler (the click, the answer of
\* contract.contribute, the mining and the confirmation of the transaction)
\* changes currentBid, lastBidder, lastMessage or lastBidderName; these change
\* only in a NewBid handler, its name lookup, or a catch-up read.
C10_SubmitLeavesCacheAlone ==
    [][/\ (submits' # submits) => UNCHANGED <<bidVars, lastBidderName>>
       /\ (<<bidVars, lastBidderName>>' # <<bidVars, lastBidderName>>) =>
              \/ \E o \in Objs : DeliverNewBid(o)
              \/ \E a \in nameLookups : NameLookupResolved(a)
              \/ \E r \in 1..Len(runs) : FetchResolved(r) \/ NameResolved(r)]_vars

\* A bid of 0xA placed through the dialog was mined and confirmed, and the
\* cached state does not show it yet: its NewBid event is still to come.
C10_Witness ==
    /\ status = <<"Bid placed successfully!", "success">>
    /\ chain # <<>>
    /\ chain[Len(chain)].sender = "0xA"
    /\ submits = <<>>
    /\ currentBid # chain[Len(chain)].amount

\* ---- C11 (checked under SpecQueue)
\* C11: at most one drain is in progress at any time and isProcessing is set
\* exactly while one is, so it is cleared whenever a drain ends, normally or
\* by an error; a notification handled while the flag is set starts no drain
\* and hands nothing to updateSingleItem.
C11_SingleDrain ==
    /\ [](Len(drains) <= 1 /\ (isProcessing <=> drains # <<>>))
    /\ [][(isProcessing /\ notified' # notified) =>
              (drains' = drains /\ refreshed' = refreshed)]_vars

\* A notification arrived while a drain was suspended at an await: its
\* identifier waits in the queue and the one drain goes on.
C11_Witness ==
    /\ isProcessing
    /\ Len(drains) = 1
    /\ pendingUpdates # <<>>
    /\ Len(notified) >= 2

\* Identifiers the DataUpdated handler put into pendingUpdates so far: those
\* of the notifications that were first with their transaction hash.
Enqueued ==
    {notified[k].id :
        k \in {k \in 1..Len(notified) :
                  \A j \in 1..(k - 1) : notified[j].tx # notified[k].tx}}

\* ---- C12 (checked under SpecQueue)
\* C12: a refresh that fails does not abort the drain: when no drain is in
\* progress, every identifier that was put into the queue has been handed to
\* updateSingleItem or is still pending.
C12_ErrorContained ==
    drains = <<>> => Enqueued \subseteq (Range(refreshed) \cup Range(pendingUpdates))

\* Times identifier id was handed to updateSingleItem.
Refreshes(id) == Cardinality({k \in 1..Len(refreshed) : refreshed[k] = id})

\* ---- C17 (checked under SpecDrain: no refresh fails, pending promises settle)
\* C17: every identifier waiting in pendingUpdates is eventually handed to
\* updateSingleItem, and the system ends up with an empty queue and no drain
\* in progress.
C17_EventuallyFetched ==
    /\ \A id \in Ids : \A n \in 0..MaxEvents :
          (id \in Range(pendingUpdates) /\ Refreshes(id) = n) ~> (Refreshes(id) > n)
    /\ <>[](pendingUpdates = <<>> /\ drains = <<>> /\ ~isProcessing)

\* Identifiers that arrived while a drain was in progress (a drain the handler
\* starts holds one identifier) were taken by a later pass of that drain and
\* handed to updateSingleItem, and nothing is left waiting.
C17_Witness ==
    /\ pendingUpdates = <<>>
    /\ \E d \in 1..Len(drains) :
          /\ Len(drains[d].updates) >= 2
          /\ drains[d].i + BatchSize >= Len(drains[d].updates)
          /\ Range(drains[d].updates) \subseteq Range(refreshed)

\* ---- C18 (checked under SpecQueue)
\* C18: a notification whose identifier no earlier notification carried gets
\* that identifier enqueued (into pendingUpdates, or straight into the drain
\* the handler starts), whatever its transaction hash.
C18_OnlyDuplicatesSuppressed ==
    [][(notified' # notified /\
          \A k \in 1..Len(notified) : notified[k].id # notified'[Len(notified')].id)
       => notified'[Len(notified')].id \in
             Range(pendingUpdates') \cup
             UNION {Range(drains'[d].updates) : d \in 1..Len(drains')}]_vars

\* ---- C14 (checked under SpecRegister)
\* The text without the whitespace at its two ends, by position: from its
\* first to its last character that is not a space.
Letters(v) == {k \in 1..Len(v) : v[k].ch # " "}
Stripped(v) ==
    IF Letters(v) = {} THEN <<>>
    ELSE SubSeq(v, CHOOSE k \in Letters(v) : \A l \in Letters(v) : k <= l,
                   CHOOSE k \in Letters(v) : \A l \in Letters(v) : l <= k)

\* C14: a click on submit-name with a name that is empty after trimming or
\* longer than 32 characters shows an error and does not call
\* contract.register; with any other name it calls contract.register with the
\* trimmed name.
C14_RegisterValidates ==
    [][RegisterClick =>
          IF Stripped(nameInput) = <<>> \/ TextLen(Stripped(nameInput)) > MaxNameLen
             THEN registers' = registers /\ status'[2] = "error"
             ELSE registers' = Append(registers, [pc |-> "register",
                                                  name |-> Stripped(nameInput)])]_vars

\* contract.register was called with a name of 32 characters taken from an
\* input that had whitespace around it.
C14_Witness ==
    \E i \in 1..Len(registers) :
        /\ registers[i].pc = "register"
        /\ registers[i].name # nameInput
        /\ TextLen(registers[i].name) = MaxNameLen

\* ---- C13 (checked under SpecWallet)
\* C13: a network switch is requested only after the wallet reported another
\* chain id; adding the network is requested only when that switch was
\* rejected as unknown chain; a failure of the chain id read, of the switch or
\* of the addition ends connectWallet with an error and without a new contract
\* object; and a signer-bound contract is installed only in the step in which
\* the chain id matched, the switch resolved or the addition resolved.
C13_NetworkBinding ==
    [][/\ \A i \in 1..Len(conn) :
            /\ (Len(conn') = Len(conn) /\ conn'[i].pc = "switch" /\ conn[i].pc # "switch")
                  => conn[i].pc = "chainId"
            /\ (Len(conn') = Len(conn) /\ conn'[i].pc = "add" /\ conn[i].pc # "add")
                  => SwitchUnknownChain(i)
            /\ (ChainIdFailed(i) \/ SwitchFailed(i) \/ AddFailed(i))
                  => (contract' = contract /\ status'[2] = "error")
       /\ (contract' # contract /\ contract'.signer)
             => \E i \in 1..Len(conn) :
                   ChainIdMatches(i) \/ SwitchDone(i) \/ AddDone(i)]_vars

\* The wallet was on another chain and did not know the designated one: the
\* switch was asked for first, the addition is pending, no signer is installed.
C13_Witness ==
    /\ ~contract.signer
    /\ status = <<"Please switch network", "warning">>
    /\ \E i \in 1..Len(conn) : conn[i].pc = "add"

\* ---- C19 (checked under SpecWallet)
\* C19: whenever no connectWallet is in flight, userAddress is set if and only
\* if the current contract object is bound to a signer.
C19_SessionConsistent ==
    conn = <<>> => ((userAddress # NoAddr) <=> contract.signer)

\* ---- C15 (checked under SpecIngest)
\* C15: in every reachable state the cached amount, bidder and message are
\* either all unset or the amount, sender and content of one and the same
\* record of the contract's bid history.
C15_OneRecord ==
    \/ /\ currentBid = Undefined
       /\ lastBidder = NoAddr
       /\ lastMessage = NoText
    \/ \E k \in 1..Len(chain) :
           /\ currentBid = chain[k].amount
           /\ lastBidder = chain[k].sender
           /\ lastMessage = chain[k].content

\* A listener applied a NewBid event, and a catch-up run that read an older
\* record wrote the cached state after it.
C15_Witness ==
    /\ Len(chain) = 2
    /\ \E o \in Objs : subs[o] # NotSubscribed /\ subs[o].next = 2
    /\ \E r \in 1..Len(runs) : runs[r].pc = "name"
    /\ currentBid = chain[1].amount
    /\ chain[1].sender # chain[2].sender

\* ---- C20 (checked under SpecNames)
\* C20: whenever a resolved name lookup runs updateDisplay, and in every state
\* where no name lookup is in flight, lastBidderName is the registry name of
\* lastBidder.
C20_NameOfBidder ==
    /\ []((nameLookups = {} /\ \A r \in 1..Len(runs) : runs[r].pc # "name")
             => lastBidderName = NameOf(lastBidder))
    /\ [][((\E a \in nameLookups : NameLookupResolved(a))
              \/ (\E r \in 1..Len(runs) : NameResolved(r)))
             => lastBidderName' = NameOf(lastBidder')]_vars

\* ---- C16 (checked under SpecIngest)
\* C16: when the read of contract.endTime fails, the step that handles the
\* failure shows an error status to the user, starts no countdown and writes
\* none of the cached bid values.
C16_EndTimeFailureSurfaced ==
    [][\A r \in 1..Len(runs) :
          EndTimeFailed(r)
             => /\ status'[2] = "error"
                /\ timerVars' = timerVars
                /\ endTimeValue' = endTimeValue
                /\ bidVars' = bidVars]_vars
====
